---- MODULE Spec2Model ----
(***************************************************************************)
(* Model of src/main.py: the image-optimisation pipeline.                  *)
(*                                                                         *)
(* process_folder scans the directories under a root, hands the image      *)
(* files of each directory to a multiprocessing Pool (pool.map over        *)
(* process_image), writes <dir>/photos.json for the successes and finally  *)
(* aggregates every photos.json into <root>/allPhotos.json.                *)
(*                                                                         *)
(* Environment assumptions: directory listings are stable (a fixed order of *)
(* the names); every directory is readable; a write of a JSON catalog does *)
(* not fail; worker processes are not killed.  Two workers that access the *)
(* same file at the same time race: a read may fail on a half-written file *)
(* and two overlapping writes may leave a garbled file.                    *)
(***************************************************************************)
EXTENDS Integers, Sequences, FiniteSets, TLC

\* ------------------------------------------------------------------ bounds
MaxRuns == 2          \* successive runs of process_folder on the same root

PoolSize == 2         \* cpu_count(): worker processes in the Pool

MaxDim == 4           \* largest image dimension (pixels) in the initial tree

\* --------------------------------------------------------------- the tree
Root == "root"

\* line 264: root.rglob('*') restricted to directories, in listing order
SubDirs == <<"A">>

Dirs == {Root} \cup {SubDirs[i] : i \in 1..Len(SubDirs)}

\* line 20
IMAGE_EXTENSIONS == {".jpg", ".jpeg", ".png", ".bmp", ".gif", ".tiff"}

\* str.lower() on the suffixes that occur in the model
Lower(s) ==
  CASE s = ".JPG" -> ".jpg"
    [] s = ".PNG" -> ".png"
    [] s = ".TXT" -> ".txt"
    [] OTHER -> s

\* A path is <dir>/<base>(-min)^mins<ext>.
Path(d, b, m, e) == [dir |-> d, base |-> b, mins |-> m, ext |-> e]

\* Path.suffix
Suffix(p) == p.ext

\* Path.stem
Stem(p) == [base |-> p.base, mins |-> p.mins]

\* lines 22-23
is_image_file(p) == Lower(Suffix(p)) \in IMAGE_EXTENSIONS

\* lines 137-138 (convert_to_webp is False, so create_minified_image keeps it)
MinPath(p) == Path(p.dir, p.base, p.mins + 1, p.ext)

\* ------------------------------------------------------------ file content
\* kind "ok": decodes and encodes; "bad_decode": Image.open/getdata raises;
\* "bad_encode": image.save raises.  dim: width = height in pixels.
\* ver: who wrote the content last ("orig" = as found before the first run).
Content(k, n, v) == [kind |-> k, dim |-> n, ver |-> v]

NoImage == Content("none", 0, "none")

Good == Content("ok", MaxDim, "orig")

Tiny == Content("ok", 1, "orig")

Corrupt == Content("bad_decode", 1, "orig")

Unencodable == Content("bad_encode", MaxDim, "orig")

\* The trees the first run may find: every file is optional but the note.
InitChoices ==
  [A_a    : {NoImage, Good, Tiny, Corrupt, Unencodable},
   A_amin : {NoImage, Tiny, Corrupt},
   A_b    : {NoImage, Good, Corrupt},
   R_a    : {NoImage, Good, Corrupt}]

InitTree(c) ==
  LET all == (Path("A", "a", 0, ".jpg") :> c.A_a)
               @@ (Path("A", "a", 1, ".jpg") :> c.A_amin)
               @@ (Path("A", "b", 0, ".PNG") :> c.A_b)
               @@ (Path(Root, "a", 0, ".jpg") :> c.R_a)
               @@ (Path(Root, "n", 0, ".txt") :> Content("text", 0, "orig"))
  IN [p \in {q \in DOMAIN all : all[q] # NoImage} |-> all[p]]

\* ------------------------------------------------------------- JSON files
\* lines 151-166
PhotoEntry(p) ==
  [title |-> Stem(p), url |-> p, min |-> MinPath(p), seriesName |-> p.dir]

NoEntry == PhotoEntry(Path(Root, "none", 0, ""))

AbsentJson == [state |-> "absent", photos |-> <<>>]

MalformedJson == [state |-> "malformed", photos |-> <<>>]

Json(photos) == [state |-> "ok", photos |-> photos]

\* a catalog left behind by an earlier run over images that are gone
StaleJson(d) == Json(<<PhotoEntry(Path(d, "old", 0, ".jpg"))>>)

RootFiles == {"allPhotos.json", "allSeries.json", "master.json"}

VARIABLES
  fs,               \* path -> content, for every file of the tree
  cat,              \* dir -> the content of <dir>/photos.json
  rootJson,         \* name -> the content of <root>/<name>
  run,              \* number of the current run of process_folder
  pc,               \* position of the orchestrator (process_folder)
  all_directories,  \* line 264
  dirIdx,           \* index of the loop at line 284
  image_files,      \* line 179, of the directory being processed
  stage,            \* per task: position of the worker in process_image
  img,              \* per task: the decoded image held by the worker
  results,          \* line 191: what pool.map returned
  all_photos_lists, \* line 283
  prevAllPhotos,    \* allPhotos.json as the previous run left it
  poolsCreated      \* Pools created in the current run (line 281)

vars ==
  <<fs, cat, rootJson, run, pc, all_directories, dirIdx, image_files, stage,
    img, results, all_photos_lists, prevAllPhotos, poolsCreated>>

\* ---------------------------------------------------------- directory scan
BaseRank(b) == CASE b = "a" -> 1 [] b = "b" -> 2 [] OTHER -> 3

ExtRank(e) == CASE e = ".jpg" -> 1 [] e = ".PNG" -> 2 [] OTHER -> 3

NameKey(p) == BaseRank(p.base) * 1000 + p.mins * 10 + ExtRank(p.ext)

RECURSIVE InListingOrder(_)
InListingOrder(S) ==
  IF S = {} THEN <<>>
  ELSE LET m == CHOOSE x \in S : \A y \in S : NameKey(x) <= NameKey(y)
       IN <<m>> \o InListingOrder(S \ {m})

\* lines 179-182 and 267-270: the image files directly in d, in listing order
ImagesIn(d) ==
  InListingOrder({p \in DOMAIN fs : p.dir = d /\ is_image_file(p)})

\* rglob('photos.json'): the root's own catalog comes first
CatalogOrder == <<Root>> \o SubDirs

Tasks == 1..Len(image_files)

Active(i) == stage[i] \in {"optimized", "written"}

Finished(i) == stage[i] \in {"done", "failed"}

Pending == [st |-> "pending", e |-> NoEntry]

None == [st |-> "none", e |-> NoEntry]

Success(p) == [st |-> "entry", e |-> PhotoEntry(p)]

\* A pool that hands results back in completion order (imap_unordered).
DeliverUnordered(res, i, r) ==
  LET k == CHOOSE n \in 1..Len(res) :
             /\ res[n].st = "pending"
             /\ \A m \in 1..(n - 1) : res[m].st # "pending"
  IN [res EXCEPT ![k] = r]

\* pool.map (line 191): the result of task i goes to position i of the list
Deliver(res, i, r) == [res EXCEPT ![i] = r]

\* A map that returns without waiting for the workers (map_async).
BatchNotAwaited == TRUE

\* pool.map (line 191) returns once every task has returned
BatchDrained == \A i \in Tasks : Finished(i)

RECURSIVE Entries(_)
Entries(res) ==
  IF res = <<>> THEN <<>>
  ELSE (IF Head(res).st = "entry" THEN <<Head(res).e>> ELSE <<>>)
         \o Entries(Tail(res))

\* A failure that is not isolated: one None discards the whole batch.
FilterResultsAllOrNothing(res) ==
  IF \E n \in 1..Len(res) : res[n].st = "none" THEN <<>> ELSE Entries(res)

\* line 194
FilterResults(res) == Entries(res)

\* -------------------------------------------------------------------- Init
Init ==
  /\ \E c \in InitChoices : fs = InitTree(c)
  /\ \E s \in {"fresh", "stale", "malformed"} :
       /\ cat = [d \in Dirs |->
                   IF d = "A" /\ s = "stale" THEN StaleJson(d)
                   ELSE IF d = "A" /\ s = "malformed" THEN MalformedJson
                   ELSE AbsentJson]
       /\ rootJson = [n \in RootFiles |->
                        IF n = "allPhotos.json" /\ s = "stale"
                        THEN StaleJson("A") ELSE AbsentJson]
  /\ run = 0
  /\ pc = "idle"
  /\ all_directories = <<>>
  /\ dirIdx = 1
  /\ image_files = <<>>
  /\ stage = <<>>
  /\ img = <<>>
  /\ results = <<>>
  /\ all_photos_lists = <<>>
  /\ prevAllPhotos = AbsentJson
  /\ poolsCreated = 0

\* ---------------------------------------------------------- process_folder
\* lines 252-283: scan the tree, create the Pool, enter the loop
Scan ==
  /\ pc \in {"idle", "done"}
  /\ run < MaxRuns
  /\ run' = run + 1
  /\ prevAllPhotos' = rootJson["allPhotos.json"]
  /\ all_directories' =
       SubDirs \o (IF ImagesIn(Root) # <<>> THEN <<Root>> ELSE <<>>)
  /\ IF all_directories' = <<>>
     THEN pc' = "done" /\ poolsCreated' = 0
     ELSE pc' = "loop" /\ poolsCreated' = 1
  /\ dirIdx' = 1
  /\ all_photos_lists' = <<>>
  /\ image_files' = <<>>
  /\ stage' = <<>>
  /\ img' = <<>>
  /\ results' = <<>>
  /\ UNCHANGED <<fs, cat, rootJson>>

\* ------------------------------------------------------- process_directory
\* lines 179-191: enumerate the images of the directory and submit them
Dispatch ==
  /\ pc = "loop"
  /\ dirIdx <= Len(all_directories)
  /\ ImagesIn(all_directories[dirIdx]) # <<>>
  /\ image_files' = ImagesIn(all_directories[dirIdx])
  /\ stage' = [i \in 1..Len(image_files') |-> "queued"]
  /\ img' = [i \in 1..Len(image_files') |-> NoImage]
  /\ results' = [i \in 1..Len(image_files') |-> Pending]
  /\ pc' = "map"
  /\ UNCHANGED <<fs, cat, rootJson, run, all_directories, dirIdx,
                 all_photos_lists, prevAllPhotos, poolsCreated>>

\* lines 184-186 and 285-286: a directory without images contributes nothing
SkipDirectory ==
  /\ pc = "loop"
  /\ dirIdx <= Len(all_directories)
  /\ ImagesIn(all_directories[dirIdx]) = <<>>
  /\ image_files' = <<>>
  /\ stage' = <<>>
  /\ img' = <<>>
  /\ results' = <<>>
  /\ dirIdx' = dirIdx + 1
  /\ UNCHANGED <<fs, cat, rootJson, run, pc, all_directories,
                 all_photos_lists, prevAllPhotos, poolsCreated>>

\* ----------------------------------------------------------- process_image
\* A worker takes the next queued task when a process of the Pool is free.
CanStart(i) ==
  /\ stage[i] = "queued"
  /\ \A j \in 1..(i - 1) : stage[j] # "queued"
  /\ Cardinality({j \in Tasks : Active(j)}) < PoolSize

\* lines 62-63
min_size(n) == n \div 2

\* Another running worker is about to save its minified image over the file
\* that task i reads: the read may see a half-written file.
ReadRaces(i) ==
  \E j \in Tasks \ {i} :
    /\ Active(j)
    /\ min_size(img[j].dim) >= 1
    /\ MinPath(image_files[j]) = image_files[i]

\* lines 170-172: any exception becomes the result None
Fail(i) ==
  /\ stage' = [stage EXCEPT ![i] = "failed"]
  /\ results' = Deliver(results, i, None)

\* An optimisation that encodes straight into the original file: the file
\* is opened for writing before the encoder runs.
OptimizeInPlace(i) ==
  /\ pc = "map"
  /\ CanStart(i)
  /\ \E torn \in (IF ReadRaces(i) THEN BOOLEAN ELSE {FALSE}) :
       IF torn \/ fs[image_files[i]].kind = "bad_decode"
       THEN /\ Fail(i)
            /\ UNCHANGED <<fs, img>>
       ELSE IF fs[image_files[i]].kind # "ok"
       THEN /\ Fail(i)
            /\ fs' = [fs EXCEPT ![image_files[i]] =
                                   Content("bad_decode", 1, "torn")]
            /\ UNCHANGED img
       ELSE /\ stage' = [stage EXCEPT ![i] = "optimized"]
            /\ img' = [img EXCEPT ![i] = fs[image_files[i]]]
            /\ UNCHANGED <<fs, results>>
  /\ UNCHANGED <<cat, rootJson, run, pc, all_directories, dirIdx,
                 image_files, all_photos_lists, prevAllPhotos, poolsCreated>>

\* lines 116-130: open, decode, normalise the mode, strip EXIF and encode the
\* optimised image into a buffer; nothing is written yet
OptimizeInMemory(i) ==
  /\ pc = "map"
  /\ CanStart(i)
  /\ \E torn \in (IF ReadRaces(i) THEN BOOLEAN ELSE {FALSE}) :
       IF torn \/ fs[image_files[i]].kind # "ok"
       THEN /\ Fail(i)
            /\ UNCHANGED <<fs, img>>
       ELSE /\ stage' = [stage EXCEPT ![i] = "optimized"]
            /\ img' = [img EXCEPT ![i] = fs[image_files[i]]]
            /\ UNCHANGED <<fs, results>>
  /\ UNCHANGED <<cat, rootJson, run, pc, all_directories, dirIdx,
                 image_files, all_photos_lists, prevAllPhotos, poolsCreated>>

\* lines 131-132: overwrite the original with the optimised buffer
WriteOriginal(i) ==
  /\ pc = "map"
  /\ stage[i] = "optimized"
  /\ fs' = [fs EXCEPT ![image_files[i]] = Content("ok", img[i].dim, "opt")]
  /\ stage' = [stage EXCEPT ![i] = "written"]
  /\ UNCHANGED <<cat, rootJson, run, pc, all_directories, dirIdx, image_files,
                 img, results, all_photos_lists, prevAllPhotos, poolsCreated>>

\* lines 136-168 with create_minified_image (lines 58-104): resize to half
\* the size, save <stem>-min<suffix>, return the entry.  Image.resize raises
\* when a side of min_size is 0.
Minify(i) ==
  /\ pc = "map"
  /\ stage[i] = "written"
  /\ IF min_size(img[i].dim) < 1
     THEN /\ Fail(i)
          /\ UNCHANGED fs
     ELSE /\ fs' = (MinPath(image_files[i])
                     :> Content("ok", min_size(img[i].dim), "min")) @@ fs
          /\ stage' = [stage EXCEPT ![i] = "done"]
          /\ results' = Deliver(results, i, Success(image_files[i]))
  /\ UNCHANGED <<cat, rootJson, run, pc, all_directories, dirIdx, image_files,
                 img, all_photos_lists, prevAllPhotos, poolsCreated>>

\* Lines 131-132 of task i and line 87 of task j write the same file at the
\* same time: both writes complete and the file is left garbled.
TornWrite(i, j) ==
  /\ pc = "map"
  /\ stage[i] = "optimized"
  /\ stage[j] = "written"
  /\ MinPath(image_files[j]) = image_files[i]
  /\ min_size(img[j].dim) >= 1
  /\ fs' = [fs EXCEPT ![image_files[i]] = Content("bad_decode", 1, "torn")]
  /\ stage' = [stage EXCEPT ![i] = "written", ![j] = "done"]
  /\ results' = Deliver(results, j, Success(image_files[j]))
  /\ UNCHANGED <<cat, rootJson, run, pc, all_directories, dirIdx, image_files,
                 img, all_photos_lists, prevAllPhotos, poolsCreated>>

\* lines 191-214 and 286: pool.map returns, the successes are written to
\* photos.json and handed back to process_folder
Collect ==
  /\ pc = "map"
  /\ BatchDrained
  /\ LET photos_data == FilterResults(results)
         d == all_directories[dirIdx]
     IN /\ cat' = IF photos_data = <<>> THEN cat
                  ELSE [cat EXCEPT ![d] = Json(photos_data)]
        /\ all_photos_lists' = all_photos_lists \o photos_data
  /\ dirIdx' = dirIdx + 1
  /\ pc' = "loop"
  /\ UNCHANGED <<fs, rootJson, run, all_directories, image_files, stage, img,
                 results, prevAllPhotos, poolsCreated>>

\* ---------------------------------------------------- aggregate_all_photos
RECURSIVE Concat(_)
Concat(ds) ==
  IF ds = <<>> THEN <<>> ELSE cat[Head(ds)].photos \o Concat(Tail(ds))

\* json.load raises on a malformed file (line 228)
Unreadable == \E d \in Dirs : cat[d].state = "malformed"

\* lines 220-250: one try block around the whole loop
aggregate_all_photos ==
  IF Unreadable \/ Concat(CatalogOrder) = <<>>
  THEN rootJson
  ELSE [rootJson EXCEPT !["allPhotos.json"] = Json(Concat(CatalogOrder))]

\* lines 284-293: the loop is over, the Pool is closed, the catalogs are
\* aggregated and process_folder returns
Aggregate ==
  /\ pc = "loop"
  /\ dirIdx > Len(all_directories)
  /\ rootJson' = aggregate_all_photos
  /\ pc' = "done"
  /\ UNCHANGED <<fs, cat, run, all_directories, dirIdx, image_files, stage,
                 img, results, all_photos_lists, prevAllPhotos, poolsCreated>>

Next ==
  \/ Scan
  \/ Dispatch
  \/ SkipDirectory
  \/ \E i \in Tasks : OptimizeInMemory(i)
  \/ \E i \in Tasks : WriteOriginal(i)
  \/ \E i \in Tasks : Minify(i)
  \/ \E i, j \in Tasks : TornWrite(i, j)
  \/ Collect
  \/ Aggregate

Spec == Init /\ [][Next]_vars

\* ------------------------------------------------------------- properties
Range(f) == {f[x] : x \in DOMAIN f}

\* the batch of the directory processed last has been collected
Collected == pc \in {"loop", "done"} /\ image_files # <<>>

BatchDir == image_files[1].dir

RECURSIVE DoneFiles(_)
DoneFiles(n) ==
  IF n = 0 THEN <<>>
  ELSE DoneFiles(n - 1)
         \o (IF stage[n] = "done" THEN <<image_files[n]>> ELSE <<>>)

Urls(photos) == [k \in 1..Len(photos) |-> photos[k].url]

SucceededIn(d) == \E e \in Range(all_photos_lists) : e.seriesName = d

RECURSIVE CatalogEntries(_)
CatalogEntries(ds) ==
  IF ds = {} THEN 0
  ELSE LET d == CHOOSE x \in ds : TRUE
       IN Len(cat[d].photos) + CatalogEntries(ds \ {d})

AllPhotos == rootJson["allPhotos.json"]

\* C1: when a run is over, a directory that holds images has a photos.json
\* if and only if one of its images was processed successfully in that run.
C1_CatalogIffSuccess ==
  pc = "done" =>
    \A d \in Dirs :
      ImagesIn(d) # <<>> => (cat[d].state # "absent" <=> SucceededIn(d))

\* C2: after a second run on the unchanged tree, allPhotos.json is what the
\* first run left.
C2_SecondRunSameAggregate ==
  (pc = "done" /\ run >= 2) => AllPhotos = prevAllPhotos

\* C3: when a run is over, allPhotos.json holds as many entries as all the
\* photos.json catalogs under the root together.
C3_AggregateCount ==
  pc = "done" => Len(AllPhotos.photos) = CatalogEntries(Dirs)

\* C4: every enumerated image gets exactly one result, the result at position
\* i is the one of image i whatever order the workers finish in, and the
\* catalog keeps the successes in submission order.
C4_OneResultPerImageInOrder ==
  /\ Len(results) = Len(image_files)
  /\ \A i \in Tasks :
       /\ results[i].st = "pending" <=> ~Finished(i)
       /\ results[i].st = "none" <=> stage[i] = "failed"
       /\ results[i].st = "entry" <=>
            (stage[i] = "done" /\ results[i].e.url = image_files[i])
  /\ Collected =>
       /\ \A i \in Tasks : results[i].st # "pending"
       /\ DoneFiles(Len(image_files)) # <<>> =>
            Urls(cat[BatchDir].photos) = DoneFiles(Len(image_files))

\* a worker has returned a success while an earlier image is still in work
C4_Witness ==
  /\ pc = "map"
  /\ \E i, j \in Tasks : i < j /\ Active(i) /\ results[j].st = "entry"

\* C5: a failed image costs only its own entry: every sibling was processed,
\* every sibling that succeeded is in the directory's photos.json, and the
\* run goes on to the directories that follow.
C5_FailureIsolated ==
  /\ Collected =>
       \A i \in Tasks :
         /\ Finished(i)
         /\ stage[i] = "done" =>
              /\ cat[BatchDir].state = "ok"
              /\ PhotoEntry(image_files[i]) \in Range(cat[BatchDir].photos)
  /\ pc = "done" => dirIdx = Len(all_directories) + 1

\* directory A had a corrupt image and a sibling that succeeded, and the root
\* directory, which follows it, was processed and produced its catalog
C5_Witness ==
  /\ pc = "done"
  /\ \E p \in DOMAIN fs : p.dir = "A" /\ fs[p] = Corrupt
  /\ SucceededIn("A")
  /\ SucceededIn(Root)

\* C6: a malformed photos.json is skipped on its own: the entries of the
\* readable catalogs are still written to allPhotos.json.
C6_MalformedSkipped ==
  (pc = "done" /\ Unreadable /\ Concat(CatalogOrder) # <<>>) =>
    AllPhotos = Json(Concat(CatalogOrder))

\* C7: a finished run has written master.json, with the photos of
\* allPhotos.json and the series of allSeries.json.
C7_MasterWritten ==
  pc = "done" =>
    /\ rootJson["master.json"].state = "ok"
    /\ rootJson["allSeries.json"].state = "ok"
    /\ rootJson["master.json"].photos = AllPhotos.photos

Touches(i) == {image_files[i], MinPath(image_files[i])}

\* C8: two workers of a batch that run at the same time touch no common file.
C8_DisjointFiles ==
  \A i, j \in Tasks :
    (i # j /\ Active(i) /\ Active(j)) => Touches(i) \cap Touches(j) = {}

DirIndex(d) == CHOOSE k \in 1..Len(all_directories) : all_directories[k] = d

\* C9: one Pool per run; a worker only ever runs an image of the directory
\* the loop is at; the directories before it are drained, and their
\* successes are in their photos.json, in the order of the enumeration.
C9_OneDirectoryAtATime ==
  /\ poolsCreated <= 1
  /\ pc \in {"loop", "map"} => poolsCreated = 1
  /\ \A i \in Tasks :
       /\ image_files[i].dir = BatchDir
       /\ ~Finished(i) =>
            (pc = "map" /\ BatchDir = all_directories[dirIdx])
  /\ pc # "idle" =>
       \A k \in 1..Len(all_photos_lists) :
         LET e == all_photos_lists[k]
         IN /\ DirIndex(e.seriesName) < dirIdx
            /\ e \in Range(cat[e.seriesName].photos)
            /\ \A m \in 1..(k - 1) :
                 DirIndex(all_photos_lists[m].seriesName)
                   <= DirIndex(e.seriesName)

\* the second directory is in work and the first one's catalog is written
C9_Witness ==
  /\ pc = "map"
  /\ dirIdx = 2
  /\ all_photos_lists # <<>>
  /\ \E i \in Tasks : Active(i)

\* C10: a process_image that fails before its optimised buffer is complete
\* leaves every file as it was, and a file is only overwritten in place by
\* the task that holds its optimised buffer.
C10_NoWriteBeforeOptimized ==
  [][/\ \A i \in Tasks :
          (image_files' = image_files /\ stage[i] = "queued"
             /\ stage'[i] = "failed") => fs' = fs
     /\ \A p \in DOMAIN fs :
          (fs'[p] # fs[p] /\ fs'[p].ver # "min") =>
            \E i \in Tasks :
              /\ image_files[i] = p
              /\ stage[i] = "optimized"
              /\ stage'[i] = "written"]_vars

\* an image whose encoding failed: its task failed and the file is untouched
C10_Witness ==
  \E i \in Tasks :
    /\ stage[i] = "failed"
    /\ fs[image_files[i]] = Unencodable

====
